---- MODULE Spec2Model ----
(***************************************************************************)
(* mapTruth_AI: the place-review pipeline of the repository, in its three  *)
(* variants:                                                               *)
(*   mapTruth_fastapi.py  POST /analyze and POST /analyze-text             *)
(*   mapTruth.py          console run with the local model                 *)
(*   mapTruth_AI.py       console run with the cloud model                 *)
(* One run is URL -> place id (resolver) -> place details (fetcher) ->     *)
(* one model call per review (classifier) -> report.  The outside world    *)
(* (redirect target, places API answers, model text) is chosen by \E.      *)
(***************************************************************************)
EXTENDS Integers, Sequences, FiniteSets, TLC

VARIABLES
    prog,              \* which entry point runs
    keySet,            \* GOOGLE_MAPS_API_KEY is a non-empty string
    inputUrl,          \* request.url / the pasted URL
    url,               \* the local `url` of get_place_id_from_url
    final_url,         \* the local `final_url` of get_place_id_from_short_url
    pc,                \* position in the run
    calls,             \* outbound calls made so far, in order
    place_id,          \* the resolver's return value
    details,           \* the fetcher's return value
    idx,               \* position of the review loop (1-based, next to handle)
    analysis,          \* the local `analysis`: last text analyze_review returned
    reviews_analysis,  \* entries appended so far
    exc,               \* exception in flight to the top-level handler
    response           \* what the caller gets

vars == <<prog, keySet, inputUrl, url, final_url, pc, calls, place_id, details,
          idx, analysis, reviews_analysis, exc, response>>

-----------------------------------------------------------------------------
(* Bounds *)

MaxReviews == 3

-----------------------------------------------------------------------------
(* Python values *)

\* Optional[str]: None or a string
None == [isNone |-> TRUE, v |-> ""]
Some(s) == [isNone |-> FALSE, v |-> s]
\* `if x:` / `if not x:` on an Optional[str]
Truthy(x) == ~x.isNone /\ x.v # ""

\* JSON scalars as the model and the APIs return them
JStr(s) == [t |-> "str", s |-> s, n |-> 0]
JInt(n) == [t |-> "int", s |-> "", n |-> n]
JNull == [t |-> "null", s |-> "", n |-> 0]

\* dict.get(key, default)
DictGet(d, key, default) == IF key \in DOMAIN d THEN d[key] ELSE default
\* {**a, **b}: keys of b win
DictMerge(a, b) ==
    [k \in (DOMAIN a) \cup (DOMAIN b) |-> IF k \in DOMAIN b THEN b[k] ELSE a[k]]
EmptyDict == [k \in {} |-> JNull]

-----------------------------------------------------------------------------
(* Strings and the regular expressions of the resolvers *)

CharAt(s, i) == SubSeq(s, i, i)

\* `lit in s`
Contains(s, lit) ==
    \E i \in 1..(Len(s) - Len(lit) + 1) : SubSeq(s, i, i + Len(lit) - 1) = lit

Digits == {"0", "1", "2", "3", "4", "5", "6", "7", "8", "9"}
Lower == {"a", "b", "c", "d", "e", "f", "g", "h", "i", "j", "k", "l", "m",
          "n", "o", "p", "q", "r", "s", "t", "u", "v", "w", "x", "y", "z"}
Upper == {"A", "B", "C", "D", "E", "F", "G", "H", "I", "J", "K", "L", "M",
          "N", "O", "P", "Q", "R", "S", "T", "U", "V", "W", "X", "Y", "Z"}
\* [A-Za-z0-9_-]
IdChars == Lower \cup Upper \cup Digits \cup {"_", "-"}
Whitespace == {" ", "\t", "\n", "\r"}

\* A pattern is a sequence of elements:
\*   Lit(x)        the literal x
\*   Opt(x)        x?
\*   Run(neg,cs,m) [cs]{m,} (neg: [^cs]{m,}), greedy
\*   Grp(neg,cs,m) the same, captured: ([cs]{m,})
\*   Open, Close   the parentheses of a group of several elements
\* In every pattern below a run is followed by the end of the pattern or by a
\* literal whose first character is outside the run's class, so the greedy
\* run is the only way to match and no backtracking is needed.
Elem(kind, lit, neg, cs, m, cap) ==
    [kind |-> kind, lit |-> lit, neg |-> neg, chars |-> cs, min |-> m, cap |-> cap]
Lit(x) == Elem("lit", x, FALSE, {}, 0, FALSE)
Opt(x) == Elem("opt", x, FALSE, {}, 0, FALSE)
Run(neg, cs, m) == Elem("run", "", neg, cs, m, FALSE)
Grp(neg, cs, m) == Elem("run", "", neg, cs, m, TRUE)
Open == Elem("open", "", FALSE, {}, 0, FALSE)
Close == Elem("close", "", FALSE, {}, 0, FALSE)

NoMatch == [ok |-> FALSE, groups |-> <<>>]

\* last index of the run of class characters that starts at i (i - 1: empty):
\* the run ends before the first character at or after i that is outside it
RunEnd(s, i, neg, cs) ==
    LET stops == {k \in i..Len(s) : (CharAt(s, k) \in cs) = neg} IN
    IF i > Len(s) THEN i - 1
    ELSE IF stops = {} THEN Len(s)
    ELSE (CHOOSE k \in stops : \A m \in stops : k <= m) - 1

LitAt(s, i, x) == i + Len(x) - 1 <= Len(s) /\ SubSeq(s, i, i + Len(x) - 1) = x

\* match pat at position i; from: where the open group began
RECURSIVE MatchAt(_, _, _, _, _)
MatchAt(s, i, pat, groups, from) ==
    IF pat = <<>> THEN [ok |-> TRUE, groups |-> groups]
    ELSE LET e == Head(pat) IN
         IF e.kind = "lit" THEN
            IF LitAt(s, i, e.lit)
            THEN MatchAt(s, i + Len(e.lit), Tail(pat), groups, from)
            ELSE NoMatch
         ELSE IF e.kind = "opt" THEN
            IF LitAt(s, i, e.lit)
            THEN MatchAt(s, i + Len(e.lit), Tail(pat), groups, from)
            ELSE MatchAt(s, i, Tail(pat), groups, from)
         ELSE IF e.kind = "open" THEN MatchAt(s, i, Tail(pat), groups, i)
         ELSE IF e.kind = "close"
         THEN MatchAt(s, i, Tail(pat), Append(groups, SubSeq(s, from, i - 1)), from)
         ELSE LET j == RunEnd(s, i, e.neg, e.chars) IN
              IF j - i + 1 >= e.min
              THEN MatchAt(s, j + 1, Tail(pat),
                           IF e.cap THEN Append(groups, SubSeq(s, i, j)) ELSE groups, from)
              ELSE NoMatch

\* re.search(pat, s): the leftmost match, at or after position i
SearchFrom(s, i, pat) ==
    LET hits == {k \in i..Len(s) : MatchAt(s, k, pat, <<>>, k).ok} IN
    IF hits = {} THEN NoMatch
    ELSE LET first == CHOOSE k \in hits : \A m \in hits : k <= m
         IN MatchAt(s, first, pat, <<>>, first)

re_search(pat, s) == SearchFrom(s, 1, pat)

\* r'place_id=([^&]+)'
PidPattern == <<Lit("place_id="), Grp(TRUE, {"&"}, 1)>>
\* r'/place/([^/@]+)'
NamePattern == <<Lit("/place/"), Grp(TRUE, {"/", "@"}, 1)>>
\* r'@(-?\d+\.\d+),(-?\d+\.\d+)'
Number == <<Open, Opt("-"), Run(FALSE, Digits, 1), Lit("."), Run(FALSE, Digits, 1), Close>>
CoordPattern == <<Lit("@")>> \o Number \o <<Lit(",")>> \o Number

\* str.replace('+', ' ')
RECURSIVE ReplacePlus(_)
ReplacePlus(s) ==
    IF s = "" THEN ""
    ELSE (IF CharAt(s, 1) = "+" THEN " " ELSE CharAt(s, 1))
         \o ReplacePlus(SubSeq(s, 2, Len(s)))

\* `not review_text` without the strip
IsBlank_NoStrip(s) == s = ""

\* `not review_text.strip()`
IsBlank(s) == \A i \in 1..Len(s) : CharAt(s, i) \in Whitespace

-----------------------------------------------------------------------------
(* The outside world: inputs and the answers of the remote services *)

\* URLs a user may paste: prefix, path and query
UrlPrefixes == {"https://goo.gl/maps", "https://maps.app.goo.gl",
                "https://maps.google.com/maps", "https://maps.google.com",
                "https://www.google.com/maps"}
UrlPaths == {"", "/", "/AbCdEfGh", "/place/Cafe+X", "/place/@12.5,-7.25",
             "/place/Cafe+X/@12.5,-7.25,17z",
             "/place/Cafe+X/ChIJN1t_tDeuEmsRUsoyG83frY4"}
UrlQueries == {"", "?place_id=ABC123", "?place_id=ABC123&hl=en", "?place_id=&hl=en",
               "?hl=en&place_id=ABC123&ref=goo.gl", "?cid=12345"}
AllUrls == {p \o q \o r : p \in UrlPrefixes, q \in UrlPaths, r \in UrlQueries}

\* URLs of the end-to-end runs
PipelineUrls == {"https://maps.google.com/?place_id=ABC123",
                 "https://goo.gl/maps/AbCdEfGh",
                 "https://www.google.com/maps/place/Cafe+X",
                 "https://www.google.com/maps"}

\* where a short link may lead (response.url)
RedirectTargets == {"https://www.google.com/maps/place/Cafe+X/@12.5,-7.25,17z",
                    "https://maps.google.com/?place_id=XYZ789",
                    "https://www.google.com/maps/@12.5,-7.25,17z",
                    "https://www.google.com/maps"}
\* requests.get(url, allow_redirects=True): raises, or answers with the final URL
RedirectOutcomes(u) ==
    {[ok |-> FALSE, url |-> ""]} \cup {[ok |-> TRUE, url |-> t] : t \in RedirectTargets \cup {u}}

\* findplacefromtext: the GET raises, the body is no JSON, or a JSON body
FindPlaceOutcomes ==
    { [net |-> "raise", status |-> "", has |-> FALSE, candidates |-> <<>>],
      [net |-> "badjson", status |-> "", has |-> FALSE, candidates |-> <<>>],
      [net |-> "json", status |-> "OK", has |-> TRUE, candidates |-> <<"ChIJfound">>],
      [net |-> "json", status |-> "OK", has |-> TRUE, candidates |-> <<>>],
      [net |-> "json", status |-> "OK", has |-> FALSE, candidates |-> <<>>],
      [net |-> "json", status |-> "ZERO_RESULTS", has |-> TRUE, candidates |-> <<>>],
      [net |-> "json", status |-> "REQUEST_DENIED", has |-> FALSE, candidates |-> <<>>] }

\* geocode/json: the GET raises, a non-200 answer, or a JSON body with results
GeocodeOutcomes ==
    { [net |-> "raise", code |-> 0, results |-> <<>>],
      [net |-> "json", code |-> 403, results |-> <<>>],
      [net |-> "json", code |-> 200, results |-> <<>>],
      [net |-> "json", code |-> 200, results |-> <<"ChIJgeo">>] }

\* reviews of a place: dicts with optional "text" and "author_name"
ReviewSet ==
    { [text |-> "Great coffee", author_name |-> "Jo"],
      [text |-> "Bad service"],
      [text |-> " \n", author_name |-> "Al"],
      [author_name |-> "Al"] }

RECURSIVE SeqsUpTo(_, _)
SeqsUpTo(S, n) ==
    IF n = 0 THEN {<<>>}
    ELSE LET shorter == SeqsUpTo(S, n - 1) IN
         shorter \cup {Append(q, x) : q \in {r \in shorter : Len(r) = n - 1}, x \in S}

JFloat(s) == [t |-> "float", s |-> s, n |-> 0]

\* the `result` object of a details answer: scalar fields, and "reviews" if present
SummaryFields ==
    { EmptyDict,
      [name |-> JStr("Cafe X")],
      [name |-> JStr("Cafe X"), formatted_address |-> JStr("1 Main St"),
       rating |-> JFloat("4.5"), user_ratings_total |-> JInt(12)] }
DetailsResults ==
    {[fields |-> f, hasReviews |-> FALSE, reviews |-> <<>>] : f \in SummaryFields}
    \cup {[fields |-> [name |-> JStr("Cafe X")], hasReviews |-> TRUE, reviews |-> rs] :
            rs \in SeqsUpTo(ReviewSet, MaxReviews)}
EmptyResult == [fields |-> EmptyDict, hasReviews |-> FALSE, reviews |-> <<>>]

\* place/details: the GET raises, raise_for_status raises, or a JSON body
DetailsOutcomes ==
    { [net |-> "raise", status |-> "", hasResult |-> FALSE, result |-> EmptyResult],
      [net |-> "httperror", status |-> "", hasResult |-> FALSE, result |-> EmptyResult],
      [net |-> "json", status |-> "NOT_FOUND", hasResult |-> FALSE, result |-> EmptyResult],
      [net |-> "json", status |-> "OK", hasResult |-> FALSE, result |-> EmptyResult] }
    \cup {[net |-> "json", status |-> s, hasResult |-> TRUE, result |-> r] :
            s \in {"OK"}, r \in DetailsResults}
    \cup {[net |-> "json", status |-> "INVALID_REQUEST", hasResult |-> TRUE,
           result |-> [fields |-> [name |-> JStr("Cafe X")], hasReviews |-> FALSE, reviews |-> <<>>]]}

\* Optional[dict]
NoDetails == [isNone |-> TRUE, d |-> EmptyResult]
SomeDetails(r) == [isNone |-> FALSE, d |-> r]
\* `if not details:` None or the empty dict
DetailsFalsy(x) == x.isNone \/ (x.d.fields = EmptyDict /\ ~x.d.hasReviews)

\* texts the model may answer with
TextPlain == "I cannot comply"
TextList == "[1, 2]"
TextFull == "{\"reviewer\": \"Jo B\", \"sentiment\": \"positive\", \"specificity\": \"high\", \"authenticity_score\": 4, \"category\": \"Not Fake\", \"recommendation\": \"Go\", \"summary\": \"Specific\"}"
TextPartial == "{\"sentiment\": \"negative\"}"
TextBadScore == "{\"sentiment\": \"positive\", \"authenticity_score\": \"high\"}"
TextNull == "{\"reviewer\": null}"
TextForged == "{\"original_review\": \"forged\", \"raw_output\": \"x\", \"category\": \"Fake\"}"
ModelTexts == {TextPlain, TextList, TextFull, TextPartial, TextBadScore, TextNull, TextForged}
ModelErrorMessage == "connection refused"
\* llm.invoke(prompt): raises, or answers with a text
ModelOutcomes ==
    {[throws |-> TRUE, text |-> ""]} \cup {[throws |-> FALSE, text |-> t] : t \in ModelTexts}

\* json.dumps({"error": msg}) for the message the model client raises with
json_dumps_error(msg) == "{\"error\": \"" \o msg \o "\"}"

\* json.loads on the texts above: no JSON, a JSON object, or another JSON value
NotJson == [kind |-> "invalid", obj |-> EmptyDict]
JsonObject(d) == [kind |-> "object", obj |-> d]
JsonOther == [kind |-> "other", obj |-> EmptyDict]
json_loads(t) ==
    CASE t = TextPlain -> NotJson
      [] t = TextList -> JsonOther
      [] t = TextFull ->
            JsonObject([reviewer |-> JStr("Jo B"), sentiment |-> JStr("positive"),
                        specificity |-> JStr("high"), authenticity_score |-> JInt(4),
                        category |-> JStr("Not Fake"), recommendation |-> JStr("Go"),
                        summary |-> JStr("Specific")])
      [] t = TextPartial -> JsonObject([sentiment |-> JStr("negative")])
      [] t = TextBadScore ->
            JsonObject([sentiment |-> JStr("positive"), authenticity_score |-> JStr("high")])
      [] t = TextNull -> JsonObject([reviewer |-> JNull])
      [] t = TextForged ->
            JsonObject([original_review |-> JStr("forged"), raw_output |-> JStr("x"),
                        category |-> JStr("Fake")])
      [] t = json_dumps_error(ModelErrorMessage) ->
            JsonObject([error |-> JStr(ModelErrorMessage)])
      [] OTHER -> NotJson

-----------------------------------------------------------------------------
(* Calls, exceptions, responses *)

\* one outbound call: what was asked, whether an answer came back (no exception),
\* and what the answer said (the final URL, the status field, the text)
Call(kind, arg, ok, got) == [kind |-> kind, arg |-> arg, ok |-> ok, got |-> got]

NoExc == [raised |-> FALSE, http |-> 0, msg |-> ""]
\* raise HTTPException(status_code=code, detail=msg)
HTTPException(code, msg) == [raised |-> TRUE, http |-> code, msg |-> msg]
\* any other exception, with str(e)
Exception(msg) == [raised |-> TRUE, http |-> 0, msg |-> msg]

NoResponse ==
    [kind |-> "none", status |-> 0, success |-> FALSE, detail |-> "",
     place_details |-> EmptyDict, analyzed |-> 0]

Programs == {"analyze", "analyze_text", "mapTruth", "mapTruth_AI"}
\* the two programs that share get_place_id_from_url and fetch_place_details
IsService == prog = "analyze"
IsConsole == prog = "mapTruth"

-----------------------------------------------------------------------------
(* Start of a run *)

InitWith(urls, progs, keys, start) ==
    /\ prog \in progs
    /\ keySet \in keys
    /\ inputUrl \in urls
    /\ url = inputUrl
    /\ final_url = ""
    /\ pc = start
    /\ calls = <<>>
    /\ place_id = None
    /\ details = NoDetails
    /\ idx = 1
    /\ analysis = ""
    /\ reviews_analysis = <<>>
    /\ exc = NoExc
    /\ response = NoResponse

\* one request or console run, from its first line
Init == InitWith(PipelineUrls, Programs, BOOLEAN, "start")

\* a start that does not look at the key
CheckKey_Skipped ==
    /\ pc = "start"
    /\ prog \in {"analyze", "mapTruth"}
    /\ pc' = "resolve"
    /\ UNCHANGED <<prog, keySet, inputUrl, url, final_url, calls, place_id, details,
                   idx, analysis, reviews_analysis, exc, response>>

\* `if not GOOGLE_MAPS_API_KEY:` of analyze_place and of mapTruth.py's main
CheckKey ==
    /\ pc = "start"
    /\ prog \in {"analyze", "mapTruth"}
    /\ IF ~keySet
       THEN IF IsService
            THEN /\ exc' = HTTPException(500, "Google Maps API key not configured")
                 /\ response' = [NoResponse EXCEPT !.kind = "http_error", !.status = 500,
                                    !.detail = "Google Maps API key not configured"]
                 /\ pc' = "done"
            ELSE /\ response' = [NoResponse EXCEPT !.kind = "console_nokey"]
                 /\ pc' = "done"
                 /\ UNCHANGED exc
       ELSE /\ pc' = "resolve"
            /\ UNCHANGED <<exc, response>>
    /\ UNCHANGED <<prog, keySet, inputUrl, url, final_url, calls, place_id, details,
                   idx, analysis, reviews_analysis>>

\* mapTruth_AI.py builds googlemaps.Client(key=GOOGLE_MAPS_API_KEY) at import;
\* the client refuses a missing key, and the program ends before its main
ModuleInit ==
    /\ pc = "start"
    /\ prog = "mapTruth_AI"
    /\ IF ~keySet
       THEN /\ response' = [NoResponse EXCEPT !.kind = "import_error",
                               !.detail = "Must provide API key or enterprise credentials when creating client."]
            /\ pc' = "done"
       ELSE /\ pc' = "ai_extract"
            /\ UNCHANGED response
    /\ UNCHANGED <<prog, keySet, inputUrl, url, final_url, calls, place_id, details,
                   idx, analysis, reviews_analysis, exc>>

-----------------------------------------------------------------------------
(* Resolver of mapTruth_fastapi.py and mapTruth.py: get_place_id_from_url *)

Shorteners == {"goo.gl", "maps.app.goo.gl"}
\* a shortener list that also catches google.com
IsShortUrl_Goo(u) == Contains(u, "goo")

\* `any(shortener in url for shortener in [...])`
IsShortUrl(u) == \E sh \in Shorteners : Contains(u, sh)

\* a resolver that keeps the short link after the redirect
ResponseUrl_KeepOriginal(u, r) == u

\* `url = response.url`
ResponseUrl(u, r) == r.url

\* a resolver that tries the redirect a second time when the first GET fails
get_place_id_from_url_redirect_Retry ==
    /\ pc = "resolve"
    /\ IF IsShortUrl(url)
       THEN \E r \in RedirectOutcomes(url) :
              /\ calls' = Append(calls, Call("redirect", url, r.ok, r.url))
              /\ IF r.ok
                 THEN /\ url' = ResponseUrl(url, r)
                      /\ pc' = "extract"
                      /\ UNCHANGED place_id
                 ELSE /\ place_id' = None
                      /\ pc' = IF calls = <<>> THEN "resolve" ELSE "resolved"
                      /\ UNCHANGED url
       ELSE /\ pc' = "extract"
            /\ UNCHANGED <<url, calls, place_id>>
    /\ UNCHANGED <<prog, keySet, inputUrl, final_url, details, idx, analysis,
                   reviews_analysis, exc, response>>

\* "Follow redirects for short URLs"
get_place_id_from_url_redirect ==
    /\ pc = "resolve"
    /\ IF IsShortUrl(url)
       THEN \E r \in RedirectOutcomes(url) :
              /\ calls' = Append(calls, Call("redirect", url, r.ok, r.url))
              /\ IF r.ok
                 THEN /\ url' = ResponseUrl(url, r)
                      /\ pc' = "extract"
                      /\ UNCHANGED place_id
                 ELSE \* except RequestException: return None
                      /\ place_id' = None
                      /\ pc' = "resolved"
                      /\ UNCHANGED url
       ELSE /\ pc' = "extract"
            /\ UNCHANGED <<url, calls, place_id>>
    /\ UNCHANGED <<prog, keySet, inputUrl, final_url, details, idx, analysis,
                   reviews_analysis, exc, response>>

\* "If URL has place_id param, use it directly", then
\* "Try finding Place ID using the full place name from the URL"
get_place_id_from_url_extract ==
    /\ pc = "extract"
    /\ LET pid_match == re_search(PidPattern, url)
           name_match == re_search(NamePattern, url)
       IN IF pid_match.ok
          THEN /\ place_id' = Some(pid_match.groups[1])
               /\ pc' = "resolved"
               /\ UNCHANGED <<calls, exc>>
          ELSE IF name_match.ok
          THEN \E f \in FindPlaceOutcomes :
                 /\ calls' = Append(calls, Call("findplace", ReplacePlus(name_match.groups[1]),
                                                f.net # "raise", f.status))
                 /\ IF f.net = "raise"
                    THEN /\ exc' = Exception("ConnectionError")
                         /\ pc' = "except"
                         /\ UNCHANGED place_id
                    ELSE IF f.net = "badjson"
                    THEN /\ exc' = Exception("JSONDecodeError")
                         /\ pc' = "except"
                         /\ UNCHANGED place_id
                    ELSE IF f.status = "OK" /\ ~f.has
                    THEN /\ exc' = Exception("KeyError: 'candidates'")
                         /\ pc' = "except"
                         /\ UNCHANGED place_id
                    ELSE /\ place_id' = IF f.status = "OK" /\ f.candidates # <<>>
                                        THEN Some(f.candidates[1]) ELSE None
                         /\ pc' = "resolved"
                         /\ UNCHANGED exc
          ELSE /\ place_id' = None
               /\ pc' = "resolved"
               /\ UNCHANGED <<calls, exc>>
    /\ UNCHANGED <<prog, keySet, inputUrl, url, final_url, details, idx, analysis,
                   reviews_analysis, response>>

-----------------------------------------------------------------------------
(* Resolver of mapTruth_AI.py: extract_place_id, get_place_id_from_short_url *)

ShortenersAI == {"goo.gl", "maps.app.goo.gl", "maps.google.com/maps"}
IsShortUrlAI(u) == \E sh \in ShortenersAI : Contains(u, sh)

Seg == Run(TRUE, {"/"}, 1)
LastSeg == Grp(TRUE, {"/", "?"}, 1)
PlacePrefix == Lit("maps.google.com/maps/place/")
\* the `patterns` list of extract_place_id, in its order
Patterns ==
    << PidPattern,
       <<PlacePrefix, Seg, Lit("/"), LastSeg>>,
       <<PlacePrefix, Seg, Lit("/@"), LastSeg>>,
       <<PlacePrefix, Seg, Lit("/data="), LastSeg>>,
       <<PlacePrefix, Seg, Lit("/@"), Seg, Lit("/"), LastSeg>>,
       <<PlacePrefix, Seg, Lit("/@"), Seg, Lit("/"), Seg, Lit("/"), LastSeg>>,
       <<PlacePrefix, Seg, Lit("/@"), Seg, Lit("/"), Seg, Lit("/"), Seg, Lit("/"), LastSeg>>,
       <<PlacePrefix, Seg, Lit("/@"), Seg, Lit("/"), Seg, Lit("/"), Seg, Lit("/"), Seg,
         Lit("/"), LastSeg>> >>
\* r'([A-Za-z0-9_-]{20,})'
MinIdLen == 20
PotentialPattern == <<Grp(FALSE, IdChars, MinIdLen)>>

\* `for i, pattern in enumerate(patterns)`: the first pattern that matches
RECURSIVE FirstPattern(_, _)
FirstPattern(u, k) ==
    IF k > Len(Patterns) THEN NoMatch
    ELSE LET m == re_search(Patterns[k], u) IN
         IF m.ok THEN m ELSE FirstPattern(u, k + 1)

\* extract_place_id up to the call of get_place_id_from_short_url, and that
\* function's "Step 1" and "Step 2"
extract_place_id_short ==
    /\ pc = "ai_extract"
    /\ IF IsShortUrlAI(url)
       THEN \E r \in RedirectOutcomes(url) :
              /\ calls' = Append(calls, Call("redirect", url, r.ok, r.url))
              /\ IF r.ok
                 THEN /\ final_url' = r.url
                      /\ pc' = IF re_search(CoordPattern, r.url).ok
                               THEN "ai_geocode" ELSE "ai_patterns"
                 ELSE \* except Exception: return None
                      /\ pc' = "ai_patterns"
                      /\ UNCHANGED final_url
       ELSE /\ pc' = "ai_patterns"
            /\ UNCHANGED <<calls, final_url>>
    /\ UNCHANGED <<prog, keySet, inputUrl, url, place_id, details, idx, analysis,
                   reviews_analysis, exc, response>>

\* "Step 3: Use Geocoding API to get place_id", and `if place_id: return place_id`
get_place_id_from_short_url_geocode ==
    /\ pc = "ai_geocode"
    /\ \E g \in GeocodeOutcomes :
         LET m == re_search(CoordPattern, final_url)
             found == IF g.net = "json" /\ g.code = 200 /\ g.results # <<>>
                      THEN Some(g.results[1]) ELSE None
         IN /\ calls' = Append(calls, Call("geocode", m.groups[1] \o "," \o m.groups[2],
                                            g.net # "raise", ""))
            /\ IF Truthy(found)
               THEN /\ place_id' = found
                    /\ pc' = "resolved"
               ELSE /\ pc' = "ai_patterns"
                    /\ UNCHANGED place_id
    /\ UNCHANGED <<prog, keySet, inputUrl, url, final_url, details, idx, analysis,
                   reviews_analysis, exc, response>>

\* "Try different patterns for Google Maps URLs", on google_maps_url
extract_place_id_patterns ==
    /\ pc = "ai_patterns"
    /\ LET m == FirstPattern(url, 1)
           potential_place_id == re_search(PotentialPattern, url)
       IN IF m.ok
          THEN /\ place_id' = Some(m.groups[1])
               /\ pc' = "resolved"
               /\ UNCHANGED exc
          ELSE IF potential_place_id.ok
          THEN /\ place_id' = Some(potential_place_id.groups[1])
               /\ pc' = "resolved"
               /\ UNCHANGED exc
          ELSE /\ exc' = Exception("Place ID not found in URL")
               /\ pc' = "except"
               /\ UNCHANGED place_id
    /\ UNCHANGED <<prog, keySet, inputUrl, url, final_url, calls, details, idx,
                   analysis, reviews_analysis, response>>

\* the resolvers alone, on every URL of the grammar
InitResolver ==
    \/ InitWith(AllUrls, {"analyze", "mapTruth"}, {TRUE}, "resolve")
    \/ InitWith(AllUrls, {"mapTruth_AI"}, {TRUE}, "ai_extract")
NextResolver ==
    \/ get_place_id_from_url_redirect
    \/ get_place_id_from_url_extract
    \/ extract_place_id_short
    \/ get_place_id_from_short_url_geocode
    \/ extract_place_id_patterns
SpecResolver == InitResolver /\ [][NextResolver]_vars

-----------------------------------------------------------------------------
(* Fetcher of mapTruth_fastapi.py and mapTruth.py *)

\* an orchestrator that goes on to the fetcher whatever the resolver returned
CheckPlaceId_NoGuard ==
    /\ pc = "resolved"
    /\ prog \in {"analyze", "mapTruth"}
    /\ pc' = "fetch"
    /\ UNCHANGED <<prog, keySet, inputUrl, url, final_url, calls, place_id, details,
                   idx, analysis, reviews_analysis, exc, response>>

\* `if not place_id:` after the resolver returned
CheckPlaceId ==
    /\ pc = "resolved"
    /\ prog \in {"analyze", "mapTruth"}
    /\ IF ~Truthy(place_id)
       THEN /\ exc' = IF IsService
                      THEN HTTPException(400, "Could not extract Place ID from URL")
                      ELSE Exception("Could not find a valid Place ID.")
            /\ pc' = "except"
       ELSE /\ pc' = "fetch"
            /\ UNCHANGED exc
    /\ UNCHANGED <<prog, keySet, inputUrl, url, final_url, calls, place_id, details,
                   idx, analysis, reviews_analysis, response>>

\* what fetch_place_details returns for an answer of the details endpoint
DetailsOf(o) ==
    IF o.net = "json" /\ o.status = "OK"
    THEN SomeDetails(IF o.hasResult THEN o.result ELSE EmptyResult)
    ELSE NoDetails

fetch_place_details ==
    /\ pc = "fetch"
    /\ prog \in {"analyze", "mapTruth"}
    /\ \E o \in DetailsOutcomes :
         /\ calls' = Append(calls, Call("details", place_id.v, o.net = "json", o.status))
         /\ details' = DetailsOf(o)
    /\ pc' = "fetched"
    /\ UNCHANGED <<prog, keySet, inputUrl, url, final_url, place_id, idx, analysis,
                   reviews_analysis, exc, response>>

\* `if not details:` and the start of the review loop
CheckDetails ==
    /\ pc = "fetched"
    /\ prog \in {"analyze", "mapTruth"}
    /\ IF DetailsFalsy(details)
       THEN /\ exc' = IF IsService
                      THEN HTTPException(400, "Could not fetch place details")
                      ELSE Exception("Could not fetch place details.")
            /\ pc' = "except"
       ELSE /\ pc' = "loop"
            /\ UNCHANGED exc
    /\ idx' = 1
    /\ reviews_analysis' = <<>>
    /\ UNCHANGED <<prog, keySet, inputUrl, url, final_url, calls, place_id, details,
                   analysis, response>>

-----------------------------------------------------------------------------
(* Classifier *)

\* details.get('reviews', [])
reviews_data == IF details.d.hasReviews THEN details.d.reviews ELSE <<>>
\* review.get('text', '')
ReviewText(review) == IF "text" \in DOMAIN review THEN review["text"] ELSE ""
\* review.get('author_name', 'Anonymous')
ReviewerName(review) ==
    IF "author_name" \in DOMAIN review THEN review["author_name"] ELSE "Anonymous"

\* analyze_review: the model's text, or the dumped error when the call raises
analyze_review(m) == IF m.throws THEN json_dumps_error(ModelErrorMessage) ELSE m.text

\* the prompt names the reviewer and the review
Prompt(review_text, reviewer_name) == reviewer_name \o ": " \o review_text

StrFields == {"reviewer", "sentiment", "specificity", "category", "recommendation",
              "summary", "original_review"}
\* the field types of class ReviewAnalysis(BaseModel): a str field takes a
\* string, authenticity_score an integer.  The model texts above hold only
\* values the validation passes unchanged (a string, an integer) or refuses
\* (null for a str field, "high" for the integer), none it would convert.
ValidReviewAnalysis(f) ==
    /\ \A k \in StrFields : f[k].t = "str"
    /\ f["authenticity_score"].t = "int"

DefaultScore == 5

\* the dict built when json.loads fails in analyze_place
FallbackAnalysis(reviewer_name, text) ==
    [reviewer |-> JStr(reviewer_name), sentiment |-> JStr("unknown"),
     specificity |-> JStr("unknown"), authenticity_score |-> JInt(DefaultScore),
     category |-> JStr("Unknown"), recommendation |-> JStr("Unknown"),
     summary |-> JStr("Analysis failed"), raw_output |-> JStr(text)]

\* ReviewAnalysis(original_review=..., reviewer=parsed_analysis.get(...), ...)
ReviewAnalysis(review_text, reviewer_name, parsed_analysis) ==
    [original_review |-> JStr(review_text),
     reviewer |-> DictGet(parsed_analysis, "reviewer", JStr(reviewer_name)),
     sentiment |-> DictGet(parsed_analysis, "sentiment", JStr("unknown")),
     specificity |-> DictGet(parsed_analysis, "specificity", JStr("unknown")),
     authenticity_score |-> DictGet(parsed_analysis, "authenticity_score", JInt(DefaultScore)),
     category |-> DictGet(parsed_analysis, "category", JStr("Unknown")),
     recommendation |-> DictGet(parsed_analysis, "recommendation", JStr("Unknown")),
     summary |-> DictGet(parsed_analysis, "summary", JStr("No analysis available"))]

\* one pass of `for i, review in enumerate(reviews_data, 1)` in analyze_place
analyze_place_review ==
    /\ pc = "loop"
    /\ IsService
    /\ idx <= Len(reviews_data)
    /\ LET review == reviews_data[idx]
           review_text == ReviewText(review)
           reviewer_name == ReviewerName(review)
       IN IF IsBlank(review_text)
          THEN /\ idx' = idx + 1
               /\ UNCHANGED <<pc, calls, analysis, reviews_analysis, exc>>
          ELSE \E m \in ModelOutcomes :
                 LET text == analyze_review(m)
                     loaded == json_loads(text)
                     parsed_analysis == IF loaded.kind = "invalid"
                                        THEN FallbackAnalysis(reviewer_name, text)
                                        ELSE loaded.obj
                     entry == ReviewAnalysis(review_text, reviewer_name, parsed_analysis)
                 IN /\ calls' = Append(calls, Call("llm", Prompt(review_text, reviewer_name), ~m.throws, m.text))
                    /\ analysis' = text
                    /\ IF loaded.kind = "other"
                       THEN /\ exc' = Exception("'list' object has no attribute 'get'")
                            /\ pc' = "except"
                            /\ UNCHANGED <<idx, reviews_analysis>>
                       ELSE IF ~ValidReviewAnalysis(entry)
                       THEN /\ exc' = Exception("validation error for ReviewAnalysis")
                            /\ pc' = "except"
                            /\ UNCHANGED <<idx, reviews_analysis>>
                       ELSE /\ reviews_analysis' = Append(reviews_analysis, entry)
                            /\ idx' = idx + 1
                            /\ UNCHANGED <<pc, exc>>
    /\ UNCHANGED <<prog, keySet, inputUrl, url, final_url, place_id, details, response>>

\* one pass of the review loop of mapTruth.py
main_review ==
    /\ pc = "loop"
    /\ IsConsole
    /\ idx <= Len(reviews_data)
    /\ LET review == reviews_data[idx]
           review_text == ReviewText(review)
       IN IF IsBlank(review_text)
          THEN /\ idx' = idx + 1
               /\ UNCHANGED <<pc, calls, analysis, reviews_analysis, exc>>
          ELSE \E m \in ModelOutcomes :
                 LET text == analyze_review(m)
                     loaded == json_loads(text)
                     parsed_analysis == IF loaded.kind = "invalid"
                                        THEN [raw_output |-> JStr(text)]
                                        ELSE loaded.obj
                 IN /\ calls' = Append(calls, Call("llm", Prompt(review_text, "Anonymous"), ~m.throws, m.text))
                    /\ analysis' = text
                    /\ IF loaded.kind = "other"
                       THEN /\ exc' = Exception("'list' object is not a mapping")
                            /\ pc' = "except"
                            /\ UNCHANGED <<idx, reviews_analysis>>
                       ELSE /\ reviews_analysis' =
                                 Append(reviews_analysis,
                                        DictMerge([original_review |-> JStr(review_text)],
                                                  parsed_analysis))
                            /\ idx' = idx + 1
                            /\ UNCHANGED <<pc, exc>>
    /\ UNCHANGED <<prog, keySet, inputUrl, url, final_url, place_id, details, response>>

-----------------------------------------------------------------------------
(* Orchestrator: the report, and the top-level exception handlers *)

\* PlaceDetails(place_name=details.get('name'), ...)
PlaceDetails(d) ==
    [place_name |-> DictGet(d.fields, "name", JNull),
     address |-> DictGet(d.fields, "formatted_address", JNull),
     rating |-> DictGet(d.fields, "rating", JNull),
     total_reviews |-> DictGet(d.fields, "user_ratings_total", JNull)]

\* return AnalysisResponse(...) / print(json.dumps(output, ...))
Respond ==
    /\ pc = "loop"
    /\ prog \in {"analyze", "mapTruth"}
    /\ idx > Len(reviews_data)
    /\ response' = [kind |-> IF IsService THEN "report" ELSE "console_report",
                    status |-> IF IsService THEN 200 ELSE 0,
                    success |-> IsService,
                    detail |-> "",
                    place_details |-> PlaceDetails(details.d),
                    analyzed |-> Len(reviews_analysis)]
    /\ pc' = "done"
    /\ UNCHANGED <<prog, keySet, inputUrl, url, final_url, calls, place_id, details,
                   idx, analysis, reviews_analysis, exc>>

\* `except HTTPException: raise`, `except Exception as e:` of analyze_place;
\* `except Exception as e: print(...)` of the console programs
HandleException ==
    /\ pc = "except"
    /\ response' =
         IF IsService
         THEN IF exc.http # 0
              THEN [NoResponse EXCEPT !.kind = "http_error", !.status = exc.http,
                                      !.detail = exc.msg]
              ELSE [NoResponse EXCEPT !.kind = "http_error", !.status = 500,
                                      !.detail = "Internal server error: " \o exc.msg]
         ELSE [NoResponse EXCEPT !.kind = "console_error", !.detail = exc.msg]
    /\ pc' = "done"
    /\ UNCHANGED <<prog, keySet, inputUrl, url, final_url, calls, place_id, details,
                   idx, analysis, reviews_analysis, exc>>

-----------------------------------------------------------------------------
(* POST /analyze-text *)

AnalyzeTextReviews == {"Great coffee", ""}
AnalyzeTextReviewers == {"Anonymous", "Jo"}

analyze_review_text ==
    /\ pc = "start"
    /\ prog = "analyze_text"
    /\ \E review_text \in AnalyzeTextReviews, reviewer_name \in AnalyzeTextReviewers,
          m \in ModelOutcomes :
         LET text == analyze_review(m) IN
         /\ calls' = Append(calls, Call("llm", Prompt(review_text, reviewer_name), ~m.throws, m.text))
         /\ analysis' = text
         /\ response' = [NoResponse EXCEPT !.kind = "text_result", !.status = 200,
                            !.success = (json_loads(text).kind # "invalid")]
    /\ pc' = "done"
    /\ UNCHANGED <<prog, keySet, inputUrl, url, final_url, place_id, details, idx,
                   reviews_analysis, exc>>

-----------------------------------------------------------------------------
(* The rest of mapTruth_AI.py's main *)

\* gmaps.place(...): the client raises on a transport error and on a status
\* other than OK and ZERO_RESULTS; fetch_place_details returns
\* place.get('result', {})
fetch_place_details_AI ==
    /\ pc = "resolved"
    /\ prog = "mapTruth_AI"
    /\ \E o \in DetailsOutcomes :
         /\ calls' = Append(calls, Call("details", place_id.v, o.net = "json", o.status))
         /\ IF o.net = "json" /\ o.status \in {"OK", "ZERO_RESULTS"}
            THEN /\ details' = SomeDetails(IF o.hasResult THEN o.result ELSE EmptyResult)
                 /\ pc' = "ai_summarize"
                 /\ UNCHANGED exc
            ELSE /\ exc' = Exception("ApiError")
                 /\ pc' = "except"
                 /\ UNCHANGED details
    /\ UNCHANGED <<prog, keySet, inputUrl, url, final_url, place_id, idx, analysis,
                   reviews_analysis, response>>

SummaryTexts == {"A cafe."}

\* print(summarize_place(details)), extract_reviews(details) and the print loop
summarize_place ==
    /\ pc = "ai_summarize"
    /\ \E ok \in BOOLEAN, t \in SummaryTexts :
         /\ calls' = Append(calls, Call("gemini", DictGet(details.d.fields, "name", JStr("N/A")).s,
                                    ok, IF ok THEN t ELSE ""))
         /\ IF ok
            THEN /\ analysis' = t
                 /\ reviews_analysis' =
                      SelectSeq([i \in 1..Len(reviews_data) |->
                                   [text |-> JStr(ReviewText(reviews_data[i]))]],
                                LAMBDA e : e["text"].s # "")
                 /\ response' = [NoResponse EXCEPT !.kind = "console_report"]
                 /\ pc' = "done"
                 /\ UNCHANGED exc
            ELSE /\ exc' = Exception("generate_content failed")
                 /\ pc' = "except"
                 /\ UNCHANGED <<analysis, reviews_analysis, response>>
    /\ UNCHANGED <<prog, keySet, inputUrl, url, final_url, place_id, details, idx>>

-----------------------------------------------------------------------------

Next ==
    \/ CheckKey
    \/ ModuleInit
    \/ get_place_id_from_url_redirect
    \/ get_place_id_from_url_extract
    \/ extract_place_id_short
    \/ get_place_id_from_short_url_geocode
    \/ extract_place_id_patterns
    \/ CheckPlaceId
    \/ fetch_place_details
    \/ CheckDetails
    \/ analyze_place_review
    \/ main_review
    \/ Respond
    \/ HandleException
    \/ analyze_review_text
    \/ fetch_place_details_AI
    \/ summarize_place

Spec == Init /\ [][Next]_vars

-----------------------------------------------------------------------------
(* What the claims speak of *)

\* the resolver has returned or raised
ResolverReturned == pc \in {"resolved", "except"}

CallsOf(kind) == SelectSeq(calls, LAMBDA c : c.kind = kind)

\* the URL contains a short-link domain of the running program
HasShortLinkDomain(u) ==
    \/ Contains(u, "goo.gl")
    \/ prog = "mapTruth_AI" /\ Contains(u, "maps.google.com/maps")

\* position i starts `place_id=` followed by a value
ParamAt(u, i) ==
    /\ i + 9 <= Len(u)
    /\ SubSeq(u, i, i + 8) = "place_id="
    /\ CharAt(u, i + 9) # "&"
HasParamValue(u) == \E i \in 1..Len(u) : ParamAt(u, i)
\* the value of the first place_id= that has one: up to the next & or the end
ParamValue(u) ==
    LET i == CHOOSE k \in 1..Len(u) : ParamAt(u, k) /\ \A h \in 1..(k - 1) : ~ParamAt(u, h)
        e == CHOOSE k \in (i + 9)..Len(u) :
                /\ \A h \in (i + 9)..k : CharAt(u, h) # "&"
                /\ k = Len(u) \/ CharAt(u, k + 1) = "&"
    IN SubSeq(u, i + 9, e)

\* C1 as stated: any URL with an explicit place_id= parameter resolves to that
\* parameter's value with no outbound call, whatever else the URL contains.
C1_AnyUrlWithParam ==
    ResolverReturned /\ HasParamValue(inputUrl)
        => /\ pc = "resolved"
           /\ place_id = Some(ParamValue(inputUrl))
           /\ calls = <<>>

\* C1: a URL that holds place_id= followed by a value, and no short-link domain
\* of the running program, resolves to the value of the first such parameter
\* and no outbound call is made.
C1_ParamWithoutShortLink ==
    ResolverReturned /\ HasParamValue(inputUrl) /\ ~HasShortLinkDomain(inputUrl)
        => /\ pc = "resolved"
           /\ place_id = Some(ParamValue(inputUrl))
           /\ calls = <<>>

\* C1 witness: the scenario URL resolved to ABC123 with no call made
C1_Witness ==
    /\ pc = "resolved"
    /\ prog = "analyze"
    /\ inputUrl = "https://maps.google.com/?place_id=ABC123"
    /\ place_id = Some("ABC123")
    /\ calls = <<>>

\* the outcome of "identifier parameter, then place-name text search" on u
RulesAppliedTo(u) ==
    LET pid_match == re_search(PidPattern, u)
        name_match == re_search(NamePattern, u)
    IN IF pid_match.ok
       THEN /\ pc = "resolved"
            /\ place_id = Some(pid_match.groups[1])
            /\ CallsOf("findplace") = <<>>
       ELSE IF name_match.ok
       THEN /\ Len(CallsOf("findplace")) = 1
            /\ CallsOf("findplace")[1].arg = ReplacePlus(name_match.groups[1])
       ELSE /\ pc = "resolved"
            /\ place_id = None
            /\ CallsOf("findplace") = <<>>

OneRedirect ==
    /\ Len(CallsOf("redirect")) = 1
    /\ calls[1].kind = "redirect"
    /\ calls[1].arg = inputUrl

\* C2 as stated: for a short-link URL, one redirect GET, and then on every path
\* (the failed redirect too) the identifier-parameter and text-search rules run
\* on the URL the redirect step left.
C2_RulesOnEveryPath ==
    ResolverReturned /\ HasShortLinkDomain(inputUrl)
        => OneRedirect /\ RulesAppliedTo(url)

\* C2: for a short-link URL the resolver issues exactly one redirect GET, first.
\* In get_place_id_from_url, when that call answers, the identifier-parameter
\* and text-search rules run on the answer's URL; when it fails, the resolver
\* returns None with no further call.  extract_place_id takes an identifier the
\* geocoding step found, and otherwise runs its patterns on the original URL.
C2_RedirectThenRules ==
    ResolverReturned /\ HasShortLinkDomain(inputUrl)
        => /\ OneRedirect
           /\ prog \in {"analyze", "mapTruth"} /\ calls[1].ok
                => url = calls[1].got /\ RulesAppliedTo(calls[1].got)
           /\ prog \in {"analyze", "mapTruth"} /\ ~calls[1].ok
                => pc = "resolved" /\ place_id = None /\ Len(calls) = 1
           /\ prog = "mapTruth_AI"
                => /\ url = inputUrl
                   /\ CallsOf("findplace") = <<>>
                   /\ \/ /\ CallsOf("geocode") # <<>>
                         /\ pc = "resolved"
                         /\ place_id.v \in {g.results[1] : g \in {x \in GeocodeOutcomes : x.results # <<>>}}
                      \/ LET m == FirstPattern(inputUrl, 1)
                             potential == re_search(PotentialPattern, inputUrl)
                         IN IF m.ok THEN pc = "resolved" /\ place_id = Some(m.groups[1])
                            ELSE IF potential.ok
                            THEN pc = "resolved" /\ place_id = Some(potential.groups[1])
                            ELSE pc = "except"

\* C2 witness: a short link whose own place_id= is ABC123 resolved, after one
\* redirect GET, to the XYZ789 of the URL it led to
C2_Witness ==
    /\ pc = "resolved"
    /\ prog = "analyze"
    /\ inputUrl = "https://goo.gl/maps?place_id=ABC123"
    /\ calls = <<Call("redirect", inputUrl, TRUE, "https://maps.google.com/?place_id=XYZ789")>>
    /\ place_id = Some("XYZ789")

-----------------------------------------------------------------------------
(* The review loop, as the claims see it *)

InPipeline == prog \in {"analyze", "mapTruth"}
Reported == pc = "done" /\ response.kind \in {"report", "console_report"}

\* the reviews the fetcher returned
FetchedReviews == IF details.isNone THEN <<>> ELSE details.d.reviews
TextOf(review) == IF "text" \in DOMAIN review THEN review["text"] ELSE ""
AuthorOf(review) ==
    IF "author_name" \in DOMAIN review THEN review["author_name"] ELSE "Anonymous"
\* empty or whitespace only
BlankText(t) == \A i \in 1..Len(t) : CharAt(t, i) \in {" ", "\t", "\n", "\r"}
NonBlank(reviews) == SelectSeq(reviews, LAMBDA r : ~BlankText(TextOf(r)))

\* the run ended inside the classification of a review
Aborted == pc \in {"except", "done"} /\ exc.raised /\ CallsOf("llm") # <<>>
\* how many reviews the loop has taken up
Reached == IF Aborted THEN idx ELSE idx - 1
\* the non-blank reviews among them
Taken == NonBlank(SubSeq(FetchedReviews, 1, Reached))
Last(q) == q[Len(q)]

\* C3 as stated: in POST /analyze no model outcome for a review turns into an
\* HTTP error: once the model was called, the request ends with a report that
\* holds an entry for every review the model was called for.
C3_ClassifierNeverRaises ==
    IsService /\ pc = "done" /\ CallsOf("llm") # <<>>
        => /\ response.kind = "report"
           /\ response.status = 200
           /\ Len(reviews_analysis) = Len(CallsOf("llm"))

\* C4 as stated: an entry of the report made from a model text that is no JSON
\* carries the sentinel values and a raw_output equal to that text.
C4_RawOutputInEntry ==
    /\ IsService /\ Reported
    /\ reviews_analysis # <<>>
    /\ json_loads(analysis).kind = "invalid"
    => LET e == Last(reviews_analysis) IN
       /\ e["sentiment"] = JStr("unknown")
       /\ e["specificity"] = JStr("unknown")
       /\ e["category"] = JStr("Unknown")
       /\ e["recommendation"] = JStr("Unknown")
       /\ e["authenticity_score"] = JInt(5)
       /\ "raw_output" \in DOMAIN e
       /\ e["raw_output"] = JStr(analysis)

ModelFields == {"reviewer", "sentiment", "specificity", "authenticity_score",
                "category", "recommendation", "summary"}
FallbackOf(k, review) ==
    CASE k = "reviewer" -> JStr(AuthorOf(review))
      [] k = "authenticity_score" -> JInt(5)
      [] k \in {"sentiment", "specificity"} -> JStr("unknown")
      [] k \in {"category", "recommendation"} -> JStr("Unknown")
      [] OTHER -> JStr("No analysis available")

\* C5 as stated: when the model's text for a review is a JSON object, the entry
\* for that review has the object's value for every field the object holds and
\* the fallback for every field it omits, and lacks no field.
C5_ObjectFieldsMapped ==
    /\ InPipeline /\ pc = "done"
    /\ CallsOf("llm") # <<>>
    /\ json_loads(analysis).kind = "object"
    => /\ Reported
       /\ reviews_analysis # <<>>
       /\ LET e == Last(reviews_analysis)
              obj == json_loads(analysis).obj
          IN \A k \in ModelFields :
                /\ k \in DOMAIN e
                /\ e[k] = IF k \in DOMAIN obj THEN obj[k] ELSE FallbackOf(k, Last(Taken))

FetchFailureMessages == {"Could not fetch place details", "Could not fetch place details."}

\* C6 as stated: the fetcher fails when the answer's status is not "OK" or the
\* call fails, returns the result otherwise, and the pipeline never reports an
\* answer with status "OK" as a failure to fetch.
C6_OkIsNeverFailure ==
    InPipeline /\ CallsOf("details") # <<>>
        => LET c == CallsOf("details")[1] IN
           /\ ~c.ok \/ c.got # "OK" => details.isNone
           /\ c.ok /\ c.got = "OK"
                => /\ ~details.isNone
                   /\ pc = "done" =>
                         ~(/\ response.kind \in {"http_error", "console_error"}
                           /\ exc.msg \in FetchFailureMessages)

\* C7: at every point of a run the model has been called once, in order, for
\* each non-blank review the loop has taken up and never for a blank one; the
\* entries are one per such review, in order, none for a blank review, so no
\* more than the reviews fetched; a report is made only after all reviews.
C7_OneEntryPerNonBlankReview ==
    InPipeline =>
        /\ Len(CallsOf("llm")) = Len(Taken)
        /\ \A i \in 1..Len(Taken) :
              CallsOf("llm")[i].arg =
                  (IF IsService THEN AuthorOf(Taken[i]) ELSE "Anonymous")
                  \o ": " \o TextOf(Taken[i])
        /\ Len(reviews_analysis) = Len(Taken) - (IF Aborted THEN 1 ELSE 0)
        /\ Len(reviews_analysis) <= Len(FetchedReviews)
        /\ IsService => \A i \in 1..Len(reviews_analysis) :
                            reviews_analysis[i]["original_review"] = JStr(TextOf(Taken[i]))
        /\ Reported => /\ Reached = Len(FetchedReviews)
                       /\ response.analyzed = Len(NonBlank(FetchedReviews))

\* C7 witness: a report over a whitespace-only review and a real one holds the
\* one entry of the second, after one model call
C7_Witness ==
    /\ IsService /\ Reported
    /\ Len(FetchedReviews) = 2
    /\ BlankText(TextOf(FetchedReviews[1]))
    /\ TextOf(FetchedReviews[1]) # ""
    /\ Len(reviews_analysis) = 1
    /\ reviews_analysis[1]["original_review"] = JStr(TextOf(FetchedReviews[2]))
    /\ Len(CallsOf("llm")) = 1

\* C8 as stated: POST /analyze answers 500 without the key, 400 when no
\* identifier was resolved (a failed or empty text search included) or the
\* fetch failed, and success = true only with a report.
C8_StatusMapping ==
    IsService /\ pc = "done"
        => /\ ~keySet => response.status = 500
           /\ keySet /\ CallsOf("details") = <<>> => response.status = 400
           /\ CallsOf("details") # <<>> /\ details.isNone => response.status = 400
           /\ response.success <=> response.kind = "report"
           /\ response.kind = "report" <=> response.status = 200

\* C9 as stated: without the places-API key no run makes any outbound call.
C9_NoCallWithoutKey == ~keySet => calls = <<>>

\* C9: without the places-API key the console runs and POST /analyze end in a
\* failure before any outbound call; POST /analyze-text does not read the key
\* and makes its one model call.
C9_NoCallWithoutKeyButText ==
    ~keySet =>
        /\ prog # "analyze_text"
             => /\ calls = <<>>
                /\ pc \in {"start", "done"}
                /\ pc = "done" => /\ response.kind \in {"http_error", "console_nokey", "import_error"}
                                  /\ ~response.success
                                  /\ IsService => response.status = 500
        /\ prog = "analyze_text" /\ pc = "done"
             => Len(calls) = 1 /\ calls[1].kind = "llm"

\* C9 witness: POST /analyze without the key ended in 500, no call made
C9_Witness ==
    /\ ~keySet /\ IsService /\ pc = "done"
    /\ response.status = 500 /\ calls = <<>>

\* C10 as stated: in every report, every entry's original_review is the text of
\* the review it was made from, whatever the model returned, in the service
\* and in the console.
C10_OriginalReviewKept ==
    InPipeline /\ Reported =>
        \A i \in 1..Len(reviews_analysis) :
            /\ "original_review" \in DOMAIN reviews_analysis[i]
            /\ reviews_analysis[i]["original_review"] = JStr(TextOf(Taken[i]))

-----------------------------------------------------------------------------
(* The order and the number of the outbound calls *)

\* the calls the resolver makes: the redirect GET and the lookups
ResolverKinds == {"redirect", "findplace", "geocode"}
ResolverCalls == SelectSeq(calls, LAMBDA c : c.kind \in ResolverKinds)
\* the text search of get_place_id_from_url, the geocoding of mapTruth_AI.py
LookupCalls == SelectSeq(calls, LAMBDA c : c.kind \in {"findplace", "geocode"})

\* C11: in every state of every run the redirect GET, the lookup (text search
\* or geocoding), the details GET and the summary call have been made at most
\* once, the model has been called at most once for each non-blank review the
\* loop has taken up (once at most in POST /analyze-text), and the resolver
\* has made at most 2 calls; a call that raised is the last call of its
\* stage: no resolver call follows a failed resolver call (no call at all in
\* get_place_id_from_url's programs), and nothing follows a failed details or
\* summary call.
C11_NoCallRetried ==
    /\ Len(CallsOf("redirect")) <= 1
    /\ Len(LookupCalls) <= 1
    /\ Len(CallsOf("details")) <= 1
    /\ Len(CallsOf("gemini")) <= 1
    /\ Len(ResolverCalls) <= 2
    /\ InPipeline => Len(CallsOf("llm")) <= Len(Taken)
    /\ prog = "analyze_text" => Len(CallsOf("llm")) <= 1
    /\ prog = "mapTruth_AI" => CallsOf("llm") = <<>>
    /\ \A i \in 1..Len(calls) :
          ~calls[i].ok =>
              /\ calls[i].kind \in ResolverKinds
                   => /\ \A j \in (i + 1)..Len(calls) : calls[j].kind \notin ResolverKinds
                      /\ InPipeline => i = Len(calls)
              /\ calls[i].kind \in {"details", "gemini"} => i = Len(calls)

\* C11 witness: a report of POST /analyze whose resolver made its 2 calls and
\* whose first model call raised; the second review got its own call
C11_Witness ==
    /\ IsService /\ Reported
    /\ Len(ResolverCalls) = 2
    /\ Len(CallsOf("llm")) = 2
    /\ ~CallsOf("llm")[1].ok
    /\ CallsOf("llm")[2].ok
    /\ Len(reviews_analysis) = 2

\* the stage a call belongs to: resolver, fetcher, model
StageOf(c) ==
    IF c.kind \in ResolverKinds THEN 1 ELSE IF c.kind = "details" THEN 2 ELSE 3
\* the runs that go through resolver, fetcher and model
Staged == prog # "analyze_text"
\* positions of the run inside the resolver
ResolverPcs == {"resolve", "extract", "ai_extract", "ai_geocode", "ai_patterns"}

\* the calls of a run so far are in the order of the stages; a details call
\* was made with the identifier the resolver returned; a model call follows a
\* details call that brought details; without an identifier there is no
\* details call, without details no model call, and neither ends in a report
StagesInOrder ==
    Staged =>
        /\ \A i, j \in 1..Len(calls) : i < j => StageOf(calls[i]) <= StageOf(calls[j])
        /\ \A i \in 1..Len(calls) :
              /\ calls[i].kind = "details"
                   => /\ Truthy(place_id)
                      /\ calls[i].arg = place_id.v
                      /\ pc \notin ResolverPcs
              /\ StageOf(calls[i]) = 3
                   => /\ \E j \in 1..(i - 1) : calls[j].kind = "details" /\ calls[j].ok
                      /\ ~details.isNone
                      /\ InPipeline => ~DetailsFalsy(details)
        /\ ~Truthy(place_id) => CallsOf("details") = <<>> /\ ~Reported
        /\ CallsOf("details") # <<>>
              /\ (details.isNone \/ (InPipeline /\ DetailsFalsy(details)))
              => /\ \A i \in 1..Len(calls) : StageOf(calls[i]) # 3
                 /\ ~Reported

\* the identifier is set once, by the resolver, before any details call, and
\* a resolver that has returned is not entered again
ResolvedOnce ==
    /\ place_id' # place_id
         => place_id = None /\ pc \in ResolverPcs /\ CallsOf("details") = <<>>
    /\ pc \notin (ResolverPcs \cup {"start"}) => pc' \notin (ResolverPcs \cup {"start"})

\* C12: one run of POST /analyze, mapTruth.py or mapTruth_AI.py goes resolver,
\* then fetcher, then model: the details endpoint is called only once the
\* resolver has returned an identifier, and with that identifier; the model
\* is called only once the fetcher has returned details; the identifier is
\* resolved once and never changes afterwards; after a resolver or a fetcher
\* failure there is no call of a later stage and no report.
C12_ResolverFetcherClassifier == []StagesInOrder /\ [][ResolvedOnce]_vars

\* C12 witness: a report of POST /analyze after two resolver calls, the
\* details call with the identifier the text search found, and a model call
C12_Witness ==
    /\ IsService /\ Reported
    /\ Len(calls) = 4
    /\ calls[1].kind = "redirect" /\ calls[2].kind = "findplace"
    /\ calls[3].kind = "details" /\ calls[3].arg = "ChIJfound"
    /\ place_id = Some("ChIJfound")
    /\ calls[4].kind = "llm"
    /\ Len(reviews_analysis) = 1

====
